---- MODULE Spec2Model ----
(***************************************************************************)
(* Model of deeppresenter/tools/richfile.py: the four tools download_file, *)
(* markdown_table_to_image, inspect_slide and inspect_manuscript.          *)
(* Text is modelled as sequences of one-character strings, so str.split,   *)
(* str.strip, str.count and the two regular expressions are computed       *)
(* character by character as Python computes them.                         *)
(***************************************************************************)
EXTENDS Integers, Sequences, FiniteSets, TLC

(* ------------------------------ bounds -------------------------------- *)
MaxFrags == 3
MaxRetryTimes == 3
MaxChunks == 2
MaxPageId == 3

(* --------------------------- text helpers ------------------------------ *)
Min(S) == CHOOSE x \in S : \A y \in S : x <= y

IsAt(s, pat, i) ==
    /\ i >= 1
    /\ i + Len(pat) - 1 <= Len(s)
    /\ \A j \in 1..Len(pat) : s[i + j - 1] = pat[j]

\* str.find, 1-based, 0 when absent
Find(s, pat, from) ==
    LET c == {i \in from..(Len(s) - Len(pat) + 1) : IsAt(s, pat, i)}
    IN IF c = {} THEN 0 ELSE Min(c)

RECURSIVE split(_, _)
\* str.split(sep): leftmost, non-overlapping occurrences of sep
split(s, sep) ==
    LET i == Find(s, sep, 1)
    IN IF i = 0 THEN <<s>>
       ELSE <<SubSeq(s, 1, i - 1)>> \o split(SubSeq(s, i + Len(sep), Len(s)), sep)

RECURSIVE count(_, _)
\* str.count(sub): non-overlapping occurrences; len+1 for the empty string
count(s, sub) ==
    IF Len(sub) = 0 THEN Len(s) + 1
    ELSE LET i == Find(s, sub, 1)
         IN IF i = 0 THEN 0
            ELSE 1 + count(SubSeq(s, i + Len(sub), Len(s)), sub)

Whitespace == {" ", "\n", "\t"}

\* str.strip(): drop leading and trailing whitespace
strip(s) ==
    LET keep == {i \in 1..Len(s) : s[i] \notin Whitespace}
    IN IF keep = {} THEN <<>>
       ELSE SubSeq(s, Min(keep), CHOOSE x \in keep : \A y \in keep : y <= x)

\* str.lower() on the letters that occur in the file names of the model
LowerChar(c) ==
    CASE c = "M" -> "m"
      [] c = "D" -> "d"
      [] c = "A" -> "a"
      [] c = "P" -> "p"
      [] c = "N" -> "n"
      [] c = "G" -> "g"
      [] OTHER -> c

lower(s) == [i \in 1..Len(s) |-> LowerChar(s[i])]

endswith(s, suf) ==
    /\ Len(s) >= Len(suf)
    /\ SubSeq(s, Len(s) - Len(suf) + 1, Len(s)) = suf

DigitChar(d) ==
    CASE d = 0 -> "0" [] d = 1 -> "1" [] d = 2 -> "2" [] d = 3 -> "3"
      [] d = 4 -> "4" [] d = 5 -> "5" [] d = 6 -> "6" [] d = 7 -> "7"
      [] d = 8 -> "8" [] OTHER -> "9"

RECURSIVE Digits(_)
Digits(n) == IF n < 10 THEN <<DigitChar(n)>> ELSE Digits(n \div 10) \o <<DigitChar(n % 10)>>

\* format spec 02d, for n >= 0
Format02d(n) == IF Len(Digits(n)) < 2 THEN <<"0">> \o Digits(n) ELSE Digits(n)

\* f"{page_id:02d}/{len(pages):02d}"
FormatPageId(page_id, n) == Format02d(page_id) \o <<"/">> \o Format02d(n)

(* ------------------------ regular expressions -------------------------- *)
\* '.' matches any character but a newline
NoNewline(s, a, b) == \A i \in a..b : s[i] # "\n"

HttpOpen == <<"]", "(", "h", "t", "t", "p", ":", "/", "/">>
HttpsOpen == <<"]", "(", "h", "t", "t", "p", "s", ":", "/", "/">>

\* re.search(r"!\[.*?\]\(https?://.*?\)", s) is not None
SearchExternal(s) ==
    \E i \in 1..Len(s) :
      /\ IsAt(s, <<"!", "[">>, i)
      /\ \E j \in (i + 2)..Len(s) :
           /\ NoNewline(s, i + 2, j - 1)
           /\ \E open \in {HttpOpen, HttpsOpen} :
                /\ IsAt(s, open, j)
                /\ \E k \in (j + Len(open))..Len(s) :
                     /\ s[k] = ")"
                     /\ NoNewline(s, j + Len(open), k - 1)

\* the match of r"!\[(.*?)\]\((.*?)\)" anchored at i: shortest label for
\* which the rest matches, then shortest path
MatchAt(s, i) ==
    LET js == {j \in (i + 2)..Len(s) :
                 /\ IsAt(s, <<"]", "(">>, j)
                 /\ NoNewline(s, i + 2, j - 1)
                 /\ \E k \in (j + 2)..Len(s) :
                      s[k] = ")" /\ NoNewline(s, j + 2, k - 1)}
    IN IF ~IsAt(s, <<"!", "[">>, i) \/ js = {}
       THEN [found |-> FALSE, label |-> <<>>, path |-> <<>>, end |-> 0]
       ELSE LET j == Min(js)
                k == Min({x \in (j + 2)..Len(s) : s[x] = ")"})
            IN [found |-> TRUE,
                label |-> SubSeq(s, i + 2, j - 1),
                path |-> SubSeq(s, j + 2, k - 1),
                end |-> k]

RECURSIVE finditer(_, _)
\* re.finditer: successive leftmost matches, each search resuming after the
\* previous match
finditer(s, pos) ==
    LET starts == {i \in pos..Len(s) : MatchAt(s, i).found}
    IN IF starts = {} THEN <<>>
       ELSE LET m == MatchAt(s, Min(starts))
            IN <<m>> \o finditer(s, m.end + 1)

(* ------------------------------ inputs -------------------------------- *)
\* the page delimiter "\n---\n"
DELIM == <<"\n", "-", "-", "-", "\n">>

PathF == <<"f">>
PathG == <<"g">>
PathX == <<"h", "t", "t", "p", ":", "/", "/", "x">>

\* pieces the documents of the model are concatenated from
Fragments ==
    { DELIM,
      <<"!", "[", "a", "]", "(", "f", ")">>,
      <<"!", "[", " ", "]", "(", "g", ")">>,
      <<"!", "[", "a", "]", "(", "h", "t", "t", "p", ":", "/", "/", "x", ")">>,
      <<"[", "b", "]", "(", "h", "t", "t", "p", "s", ":", "/", "/", "x", ")">>,
      <<"f">>,
      <<"\n">>,
      <<"-", "-", "-">> }

RECURSIVE DocsOfLen(_)
DocsOfLen(n) ==
    IF n = 0 THEN {<<>>}
    ELSE {d \o f : d \in DocsOfLen(n - 1), f \in Fragments}

Docs == UNION {DocsOfLen(n) : n \in 0..MaxFrags}

\* which image files exist on disk
DiskStates == {{}, {PathF}, {PathF, PathG}}

FileAMd == <<"a", ".", "m", "d">>
FileUpper == <<"A", ".", "M", "D">>
FileTxt == <<"a", ".", "t", "x", "t">>
FileGoneMd == <<"g", ".", "m", "d">>
FileGoneTxt == <<"g", ".", "t", "x", "t">>

MdFiles == {FileAMd, FileUpper, FileTxt, FileGoneMd, FileGoneTxt}
ExistingFiles == {FileAMd, FileUpper, FileTxt}

PageIds == 0..MaxPageId

OutBin == <<"o", ".", "b", "i", "n">>
OutPng == <<"o", ".", "p", "n", "g">>
OutUpperPng == <<"o", ".", "P", "N", "G">>
OutputPaths == {OutBin, OutPng, OutUpperPng}

ImageSuffixes ==
    { <<".", "p", "n", "g">>, <<".", "j", "p", "g">>, <<".", "j", "p", "e", "g">>,
      <<".", "g", "i", "f">>, <<".", "w", "e", "b", "p">>, <<".", "b", "m", "p">> }

Chunks == {"c1", "c2"}

\* what the output path holds before the call
InitialFiles == { [exists |-> FALSE, bytes |-> <<>>],
                  [exists |-> TRUE, bytes |-> <<"old", "old", "old">>] }

Tools == {"download_file", "markdown_table_to_image", "inspect_slide", "inspect_manuscript"}

NoResult == [none |-> TRUE]

VARIABLES
    tool,        \* the tool being called
    pc,          \* position inside the call
    outcome,     \* "running", "returned" or "raised"
    result,      \* the returned value
    RETRY_TIMES, \* deeppresenter.utils.config.RETRY_TIMES
    output_path, \* download_file: argument
    retry,       \* download_file: loop index
    log,         \* download_file: sleeps and requests, in order
    attempts,    \* download_file: how each iteration ended
    inflight,    \* download_file: open HTTP streams
    status,      \* download_file: HTTP status of the current attempt
    streamed,    \* download_file: chunks the current response delivered
    file,        \* download_file: the file at output_path
    markdown,    \* inspect_manuscript: text of the markdown files
    disk,        \* inspect_manuscript: image paths that exist
    md_file,     \* inspect_manuscript: argument
    page_id      \* inspect_manuscript: argument

vars == <<tool, pc, outcome, result, RETRY_TIMES, output_path, retry, log, attempts,
          inflight, status, streamed, file, markdown, disk, md_file, page_id>>

downloadVars == <<RETRY_TIMES, output_path, retry, log, attempts, inflight, status,
                  streamed, file>>
manuscriptVars == <<markdown, disk, md_file, page_id>>

(* ------------------------- inspect_manuscript -------------------------- *)
ErrNoFile(f) == [error |-> <<"file does not exist: ", f>>]
ErrNotMarkdown(f) == [error |-> <<"file is not a markdown file: ", f>>]
ErrPageIdLow == [error |-> <<"Page ID should be a positive integer starting from 1.">>]
ErrPageIdHigh == [error |-> <<"Page ID exceeds the number of pages in the document. You could view full content using read_file to see if format error happened.">>]
NoError == [ok |-> TRUE]

\* Path(p).exists()
PathExists(p, existing) == p \in existing

\* a plausible slip: the extension is tested before the existence
PreCheckExtFirst(f, pid) ==
    IF ~endswith(lower(f), <<".", "m", "d">>) THEN ErrNotMarkdown(f)
    ELSE IF ~PathExists(f, ExistingFiles) THEN ErrNoFile(f)
    ELSE IF pid < 1 THEN ErrPageIdLow
    ELSE NoError

\* the if / elif / elif chain before the file is read
PreCheck(f, pid) ==
    IF ~PathExists(f, ExistingFiles) THEN ErrNoFile(f)
    ELSE IF ~endswith(lower(f), <<".", "m", "d">>) THEN ErrNotMarkdown(f)
    ELSE IF pid < 1 THEN ErrPageIdLow
    ELSE NoError

NonEmptyPage(p) == Len(strip(p)) > 0

\* a plausible slip: blank segments are kept as pages
PagesUnfiltered(text) == split(text, DELIM)

\* [p for p in markdown.split("\n---\n") if p.strip()]
Pages(text) == SelectSeq(split(text, DELIM), NonEmptyPage)

WarnExternal ==
    [kind |-> "external", label |-> <<>>, path |-> <<>>, count |-> 0]
WarnMissing(path) ==
    [kind |-> "missing", label |-> <<>>, path |-> path, count |-> 0]
WarnNoAlt(path) ==
    [kind |-> "no_alt", label |-> <<>>, path |-> path, count |-> 0]
WarnCount(label, path, n) ==
    [kind |-> "count", label |-> label, path |-> path, count |-> n]

\* defaultdict(list): d[key].append(v) creates the key on first use
DictAppend(d, key, v) ==
    IF key \in DOMAIN d
    THEN [d EXCEPT ![key] = Append(@, v)]
    ELSE [k \in DOMAIN d \cup {key} |-> IF k = key THEN <<v>> ELSE d[k]]

\* a plausible slip: occurrences counted on the selected page only
CountOnPage(text, page, path) == count(page, path)

\* markdown.count(local_path)
CountInDocument(text, page, path) == count(text, path)

\* one iteration of the loop over the image references
CheckReference(d, m, text, page, existing) ==
    LET n == CountInDocument(text, page, m.path)
        d1 == IF ~PathExists(m.path, existing)
              THEN DictAppend(d, "warnings", WarnMissing(m.path)) ELSE d
        d2 == IF Len(strip(m.label)) = 0
              THEN DictAppend(d1, "warnings", WarnNoAlt(m.path)) ELSE d1
    IN IF n # 1
       THEN DictAppend(d2, "warnings", WarnCount(m.label, m.path, n)) ELSE d2

RECURSIVE CheckReferences(_, _, _, _, _, _)
CheckReferences(d, ms, i, text, page, existing) ==
    IF i > Len(ms) THEN d
    ELSE CheckReferences(CheckReference(d, ms[i], text, page, existing),
                         ms, i + 1, text, page, existing)

\* the value inspect_manuscript returns when the file can be read
inspect_manuscript(f, pid, text, existing) ==
    IF PreCheck(f, pid) # NoError THEN PreCheck(f, pid)
    ELSE LET pages == Pages(text)
         IN IF ~(Len(pages) >= pid) THEN ErrPageIdHigh
            ELSE LET page == pages[pid]
                     d0 == [page_id |-> FormatPageId(pid, Len(pages)),
                            page_content |-> page]
                     d1 == IF SearchExternal(page)
                           THEN DictAppend(d0, "warnings", WarnExternal) ELSE d0
                 IN CheckReferences(d1, finditer(page, 1), 1, text, page, existing)

(* ---------------------------- download_file ---------------------------- *)
Url == "url"

MsgFailed(url) == [msg |-> "Failed to download file from", arg |-> <<url>>, resolution |-> FALSE]
MsgDownloaded(path, withResolution) ==
    [msg |-> "File downloaded to", arg |-> path, resolution |-> withResolution]
MsgNotImage ==
    [msg |-> "The provided URL does not point to a valid image file", arg |-> <<>>,
     resolution |-> FALSE]

\* a plausible slip: range(RETRY_TIMES + 1)
LoopContinuesInclusive(r, n) == r <= n

\* for retry in range(RETRY_TIMES)
LoopContinues(r, n) == r < n

\* await asyncio.sleep(retry)
SleepSeconds(r) == r

\* a plausible slip: only HTTP errors are caught, not OSError from the file
CaughtHttpOnly(kind) == kind \notin {"open", "write"}

\* the bare except catches whatever an attempt raises
Caught(kind) == TRUE

\* a plausible slip: the file is opened for appending
OpenAppend(f) == [exists |-> TRUE, bytes |-> f.bytes]

\* open(output_path, "wb") creates or truncates the file
OpenWb(f) == [exists |-> TRUE, bytes |-> <<>>]

\* output_path.lower().endswith((".png", ".jpg", ...))
IsImagePath(path) == \E suf \in ImageSuffixes : endswith(lower(path), suf)

\* an exception of the given kind leaves the try block of the current attempt
Except(kind) ==
    /\ inflight' = 0
    /\ attempts' = Append(attempts, kind)
    /\ IF Caught(kind)
       THEN /\ retry' = retry + 1
            /\ pc' = "for"
            /\ outcome' = outcome
       ELSE /\ retry' = retry
            /\ pc' = "done"
            /\ outcome' = "raised"

Mkdir ==
    /\ tool = "download_file" /\ pc = "mkdir"
    /\ pc' = "for"
    /\ UNCHANGED <<tool, outcome, result, downloadVars, manuscriptVars>>

MkdirRaises ==
    /\ tool = "download_file" /\ pc = "mkdir"
    /\ pc' = "done"
    /\ outcome' = "raised"
    /\ UNCHANGED <<tool, result, downloadVars, manuscriptVars>>

Sleep ==
    /\ tool = "download_file" /\ pc = "for"
    /\ LoopContinues(retry, RETRY_TIMES)
    /\ log' = Append(log, [ev |-> "sleep", retry |-> retry, secs |-> SleepSeconds(retry)])
    /\ pc' = "request"
    /\ UNCHANGED <<tool, outcome, result, RETRY_TIMES, output_path, retry, attempts,
                   inflight, status, streamed, file, manuscriptVars>>

ForElse ==
    /\ tool = "download_file" /\ pc = "for"
    /\ ~LoopContinues(retry, RETRY_TIMES)
    /\ result' = MsgFailed(Url)
    /\ outcome' = "returned"
    /\ pc' = "done"
    /\ UNCHANGED <<tool, downloadVars, manuscriptVars>>

SendRequest ==
    /\ tool = "download_file" /\ pc = "request"
    /\ log' = Append(log, [ev |-> "get", retry |-> retry, secs |-> 0])
    /\ inflight' = inflight + 1
    /\ status' = "pending"
    /\ streamed' = <<>>
    /\ pc' = "response"
    /\ UNCHANGED <<tool, outcome, result, RETRY_TIMES, output_path, retry, attempts,
                   file, manuscriptVars>>

ConnectError ==
    /\ tool = "download_file" /\ pc = "response"
    /\ Except("connect")
    /\ UNCHANGED <<tool, result, RETRY_TIMES, output_path, log, status, streamed, file,
                   manuscriptVars>>

StatusError ==
    /\ tool = "download_file" /\ pc = "response"
    /\ status' = "error"
    /\ Except("status")
    /\ UNCHANGED <<tool, result, RETRY_TIMES, output_path, log, streamed, file,
                   manuscriptVars>>

StatusOk ==
    /\ tool = "download_file" /\ pc = "response"
    /\ status' = "ok"
    /\ pc' = "open"
    /\ UNCHANGED <<tool, outcome, result, RETRY_TIMES, output_path, retry, log, attempts,
                   inflight, streamed, file, manuscriptVars>>

OpenFile ==
    /\ tool = "download_file" /\ pc = "open"
    /\ file' = OpenWb(file)
    /\ pc' = "stream"
    /\ UNCHANGED <<tool, outcome, result, RETRY_TIMES, output_path, retry, log, attempts,
                   inflight, status, streamed, manuscriptVars>>

OpenFileError ==
    /\ tool = "download_file" /\ pc = "open"
    /\ Except("open")
    /\ UNCHANGED <<tool, result, RETRY_TIMES, output_path, log, status, streamed, file,
                   manuscriptVars>>

WriteChunk(c) ==
    /\ tool = "download_file" /\ pc = "stream"
    /\ Len(streamed) < MaxChunks
    /\ streamed' = Append(streamed, c)
    /\ file' = [file EXCEPT !.bytes = Append(@, c)]
    /\ UNCHANGED <<tool, pc, outcome, result, RETRY_TIMES, output_path, retry, log,
                   attempts, inflight, status, manuscriptVars>>

WriteError(c) ==
    /\ tool = "download_file" /\ pc = "stream"
    /\ Len(streamed) < MaxChunks
    /\ streamed' = Append(streamed, c)
    /\ Except("write")
    /\ UNCHANGED <<tool, result, RETRY_TIMES, output_path, log, status, file,
                   manuscriptVars>>

ReadError ==
    /\ tool = "download_file" /\ pc = "stream"
    /\ Except("read")
    /\ UNCHANGED <<tool, result, RETRY_TIMES, output_path, log, status, streamed, file,
                   manuscriptVars>>

EndOfStream ==
    /\ tool = "download_file" /\ pc = "stream"
    /\ pc' = "close"
    /\ UNCHANGED <<tool, outcome, result, downloadVars, manuscriptVars>>

CloseError ==
    /\ tool = "download_file" /\ pc = "close"
    /\ Except("close")
    /\ UNCHANGED <<tool, result, RETRY_TIMES, output_path, log, status, streamed, file,
                   manuscriptVars>>

Break ==
    /\ tool = "download_file" /\ pc = "close"
    /\ inflight' = 0
    /\ attempts' = Append(attempts, "ok")
    /\ pc' = "result"
    /\ UNCHANGED <<tool, outcome, result, RETRY_TIMES, output_path, retry, log, status,
                   streamed, file, manuscriptVars>>

ReturnDownloaded ==
    /\ tool = "download_file" /\ pc = "result"
    /\ result' = MsgDownloaded(output_path, IsImagePath(output_path))
    /\ outcome' = "returned"
    /\ pc' = "done"
    /\ UNCHANGED <<tool, downloadVars, manuscriptVars>>

ReturnNotImage ==
    /\ tool = "download_file" /\ pc = "result"
    /\ IsImagePath(output_path)
    /\ result' = MsgNotImage
    /\ outcome' = "returned"
    /\ pc' = "done"
    /\ UNCHANGED <<tool, downloadVars, manuscriptVars>>

(* ------------------- markdown_table_to_image, inspect_slide ------------ *)
TablePath == <<"t", ".", "p", "n", "g">>

TableReturns ==
    /\ tool = "markdown_table_to_image" /\ pc = "call"
    /\ result' = [msg |-> "Markdown table converted to image and saved to",
                  arg |-> TablePath, resolution |-> FALSE]
    /\ outcome' = "returned"
    /\ pc' = "done"
    /\ UNCHANGED <<tool, downloadVars, manuscriptVars>>

TableRaises ==
    /\ tool = "markdown_table_to_image" /\ pc = "call"
    /\ outcome' = "raised"
    /\ pc' = "done"
    /\ UNCHANGED <<tool, result, downloadVars, manuscriptVars>>

AspectRatios == {"widescreen", "normal", "A1"}

SlideResult(valid, aspect, conv) ==
    IF ~valid
    THEN [msg |-> "HTML path does not exist or is not an HTML file", arg |-> <<>>,
          resolution |-> FALSE]
    ELSE IF aspect \notin AspectRatios
    THEN [msg |-> "aspect_ratio should be one of 'widescreen', 'normal', 'A1'",
          arg |-> <<>>, resolution |-> FALSE]
    ELSE IF conv = "exception"
    THEN [msg |-> "exception object", arg |-> <<>>, resolution |-> FALSE]
    ELSE IF conv = "no_output"
    THEN [msg |-> "Slide inspection failed: PPTX to image conversion produced no output.",
          arg |-> <<>>, resolution |-> FALSE]
    ELSE [msg |-> "ImageContent", arg |-> <<aspect>>, resolution |-> FALSE]

InspectSlide(valid, aspect, conv) ==
    /\ tool = "inspect_slide" /\ pc = "call"
    /\ result' = SlideResult(valid, aspect, conv)
    /\ outcome' = "returned"
    /\ pc' = "done"
    /\ UNCHANGED <<tool, downloadVars, manuscriptVars>>

(* ----------------------- inspect_manuscript call ----------------------- *)
InspectManuscript(f, pid) ==
    /\ tool = "inspect_manuscript" /\ pc = "call"
    /\ md_file' = f
    /\ page_id' = pid
    /\ result' = inspect_manuscript(f, pid, markdown, disk)
    /\ outcome' = "returned"
    /\ pc' = "done"
    /\ UNCHANGED <<tool, downloadVars, markdown, disk>>

\* open(md_file).read() raises: the path is a directory, unreadable, not text
InspectManuscriptOpenRaises(f, pid) ==
    /\ tool = "inspect_manuscript" /\ pc = "call"
    /\ PreCheck(f, pid) = NoError
    /\ md_file' = f
    /\ page_id' = pid
    /\ outcome' = "raised"
    /\ pc' = "done"
    /\ UNCHANGED <<tool, result, downloadVars, markdown, disk>>

(* --------------------------- specifications ---------------------------- *)
InitCommon ==
    /\ outcome = "running"
    /\ result = NoResult
    /\ retry = 0
    /\ log = <<>>
    /\ attempts = <<>>
    /\ inflight = 0
    /\ status = "none"
    /\ streamed = <<>>
    /\ md_file = <<>>
    /\ page_id = 1

InitDownload ==
    /\ InitCommon
    /\ tool = "download_file"
    /\ pc = "mkdir"
    /\ RETRY_TIMES \in 0..MaxRetryTimes
    /\ output_path \in OutputPaths
    /\ file \in InitialFiles
    /\ markdown = <<>>
    /\ disk = {}

InitOther ==
    /\ InitCommon
    /\ tool \in {"markdown_table_to_image", "inspect_slide"}
    /\ pc = "call"
    /\ RETRY_TIMES = 0
    /\ output_path = OutBin
    /\ file = [exists |-> FALSE, bytes |-> <<>>]
    /\ markdown = <<>>
    /\ disk = {}

InitManuscript ==
    /\ InitCommon
    /\ tool = "inspect_manuscript"
    /\ pc = "call"
    /\ RETRY_TIMES = 0
    /\ output_path = OutBin
    /\ file = [exists |-> FALSE, bytes |-> <<>>]
    /\ markdown \in Docs
    /\ disk \in DiskStates

Init == InitDownload \/ InitOther \/ InitManuscript

NextDownload ==
    \/ Mkdir
    \/ MkdirRaises
    \/ Sleep
    \/ ForElse
    \/ SendRequest
    \/ ConnectError
    \/ StatusError
    \/ StatusOk
    \/ OpenFile
    \/ OpenFileError
    \/ \E c \in Chunks : WriteChunk(c)
    \/ \E c \in Chunks : WriteError(c)
    \/ ReadError
    \/ EndOfStream
    \/ CloseError
    \/ Break
    \/ ReturnDownloaded
    \/ ReturnNotImage

NextOther ==
    \/ TableReturns
    \/ TableRaises
    \/ \E valid \in BOOLEAN, aspect \in AspectRatios \cup {"other"},
         conv \in {"image", "no_output", "exception"} : InspectSlide(valid, aspect, conv)

NextManuscript ==
    \/ \E f \in MdFiles, pid \in PageIds : InspectManuscript(f, pid)
    \/ \E f \in MdFiles, pid \in PageIds : InspectManuscriptOpenRaises(f, pid)

Next == NextDownload \/ NextOther \/ NextManuscript

Spec == Init /\ [][Next]_vars
SpecDownload == InitDownload /\ [][NextDownload]_vars
SpecManuscript == InitManuscript /\ [][NextManuscript]_vars

(* ------------------- properties of download_file ----------------------- *)
Range(q) == {q[i] : i \in DOMAIN q}

Gets == {i \in DOMAIN log : log[i].ev = "get"}

AllAttemptsFailed ==
    /\ Len(attempts) = RETRY_TIMES
    /\ \A i \in DOMAIN attempts : attempts[i] # "ok"

\* C1: attempts run one at a time; the k-th request (0-based) directly follows
\* one sleep of exactly k seconds; nothing is requested after the first
\* successful attempt; at most RETRY_TIMES requests are made (none when
\* RETRY_TIMES is 0).
C1_RetryProtocol ==
    /\ inflight \in {0, 1}
    /\ \A i \in Gets :
         LET k == Cardinality({j \in Gets : j < i})
         IN /\ i > 1
            /\ log[i - 1].ev = "sleep"
            /\ log[i - 1].secs = k
            /\ (i > 2 => log[i - 2].ev = "get")
    /\ \A a \in DOMAIN attempts : attempts[a] = "ok" => Cardinality(Gets) = a
    /\ Cardinality(Gets) <= RETRY_TIMES

C1_Witness ==
    /\ outcome = "returned"
    /\ RETRY_TIMES = 3
    /\ Cardinality(Gets) = 3
    /\ attempts[3] = "ok"
    /\ log[5] = [ev |-> "sleep", retry |-> 2, secs |-> 2]

\* C2: the failure string is returned exactly when all RETRY_TIMES attempts
\* ended in an exception; nothing raised inside an attempt reaches the caller;
\* the success message is never returned when all attempts failed.
C2_FailureString ==
    /\ outcome = "returned" =>
         /\ (result = MsgFailed(Url)) <=> AllAttemptsFailed
         /\ AllAttemptsFailed => result.msg # "File downloaded to"
    /\ outcome = "raised" => (log = <<>> /\ attempts = <<>>)

C2_Witness ==
    /\ outcome = "returned"
    /\ result = MsgFailed(Url)
    /\ RETRY_TIMES = 3
    /\ attempts = <<"status", "read", "write">>

DownloadSucceeded == outcome = "returned" /\ result.msg = "File downloaded to"

\* C10: an attempt that reaches the write step starts from an empty file, so
\* on success the file holds exactly the chunks of the successful attempt, in
\* order; the file changes only inside an attempt whose status was successful.
C10_FileContent ==
    /\ [](DownloadSucceeded => (file.exists /\ file.bytes = streamed))
    /\ [][ /\ (pc = "open" /\ pc' = "stream") => file'.bytes = <<>>
           /\ file' # file => (status = "ok" /\ inflight = 1 /\ pc \in {"open", "stream"})
         ]_vars

C10_Witness ==
    /\ DownloadSucceeded
    /\ Len(attempts) = 2
    /\ attempts[1] = "read"
    /\ Len(streamed) = 2
    /\ file.bytes = streamed

(* ------------------------ properties of all tools ---------------------- *)
\* C3: no tool lets an exception reach the caller; every failure path returns
\* a value.
C3_NoToolRaises == outcome # "raised"

(* ------------------ properties of inspect_manuscript ------------------- *)
IsBlank(seg) == \A i \in DOMAIN seg : seg[i] \in Whitespace

Segments == split(markdown, DELIM)

NonBlankIndexes == {i \in DOMAIN Segments : ~IsBlank(Segments[i])}

PageCount == Cardinality(NonBlankIndexes)

NamedMarkdown == md_file \in {FileAMd, FileUpper, FileGoneMd}

ManuscriptReturned == tool = "inspect_manuscript" /\ outcome = "returned"

ManuscriptSucceeded == ManuscriptReturned /\ "error" \notin DOMAIN result

ValidInput ==
    /\ md_file \in ExistingFiles
    /\ NamedMarkdown
    /\ page_id >= 1
    /\ page_id <= PageCount

ExpectedError ==
    IF md_file \notin ExistingFiles THEN ErrNoFile(md_file)
    ELSE IF ~NamedMarkdown THEN ErrNotMarkdown(md_file)
    ELSE IF page_id < 1 THEN ErrPageIdLow
    ELSE ErrPageIdHigh

\* C4: the checks run in the order exists, .md, page_id >= 1, page_id <= page
\* count; the first failing one returns a result whose only key is "error",
\* with a message of its own; an invalid input never gets a page.
C4_ValidationOrder ==
    /\ Cardinality({ErrNoFile(md_file).error[1], ErrNotMarkdown(md_file).error[1],
                    ErrPageIdLow.error[1], ErrPageIdHigh.error[1]}) = 4
    /\ (ManuscriptReturned /\ ~ValidInput) =>
         /\ DOMAIN result = {"error"}
         /\ result = ExpectedError

C4_Witness ==
    /\ ManuscriptReturned
    /\ md_file = FileAMd
    /\ PageCount = 2
    /\ page_id = 3
    /\ result = ErrPageIdHigh

RECURSIVE Join(_, _)
Join(segs, sep) ==
    IF Len(segs) = 0 THEN <<>>
    ELSE IF Len(segs) = 1 THEN segs[1]
    ELSE segs[1] \o sep \o Join(Tail(segs), sep)

\* segs cuts doc at the leftmost, non-overlapping delimiters
IsSplitOf(segs, doc) ==
    /\ Len(segs) >= 1
    /\ Join(segs, DELIM) = doc
    /\ \A i \in 1..(Len(segs) - 1) : Find(segs[i] \o DELIM, DELIM, 1) = Len(segs[i]) + 1
    /\ Find(segs[Len(segs)], DELIM, 1) = 0

Pad2(n) == IF n < 10 THEN <<"0", DigitChar(n)>> ELSE Digits(n)

\* C5: for 1 <= k <= n the page returned is the k-th non-blank segment of the
\* document cut at "\n---\n", and page_id is k and n, each padded to two
\* digits, joined by "/".
C5_PageSelection ==
    (ManuscriptReturned /\ ValidInput) =>
        /\ IsSplitOf(Segments, markdown)
        /\ "error" \notin DOMAIN result
        /\ \E j \in NonBlankIndexes :
             /\ Cardinality({i \in NonBlankIndexes : i <= j}) = page_id
             /\ result.page_content = Segments[j]
        /\ result.page_id = Pad2(page_id) \o <<"/">> \o Pad2(PageCount)

C5_Witness ==
    /\ ManuscriptSucceeded
    /\ Len(Segments) = 2
    /\ PageCount = 2
    /\ page_id = 2
    /\ result.page_content = Segments[2]
    /\ result.page_id = <<"0", "2", "/", "0", "2">>

\* C6: every successful result has the three keys page_id, page_content and
\* warnings, warnings being the empty list when no check fires.
C6_AllThreeFields ==
    ManuscriptSucceeded => DOMAIN result = {"page_id", "page_content", "warnings"}

Warnings == IF "warnings" \in DOMAIN result THEN result.warnings ELSE <<>>

\* the image references of the selected page
References == Range(finditer(result.page_content, 1))

IsHttp(path) ==
    \/ IsAt(path, <<"h", "t", "t", "p", ":", "/", "/">>, 1)
    \/ IsAt(path, <<"h", "t", "t", "p", "s", ":", "/", "/">>, 1)

\* C7: the external-image warning is present exactly when the page has an
\* image reference whose url starts with http:// or https://, and at most
\* once.
C7_ExternalWarningExact ==
    ManuscriptSucceeded =>
        /\ (WarnExternal \in Range(Warnings)) <=> (\E m \in References : IsHttp(m.path))
        /\ Cardinality({i \in DOMAIN Warnings : Warnings[i] = WarnExternal}) <= 1

\* C8: the missing-file warning for p is present exactly when the page has an
\* image reference to a local path p that does not exist; an http(s)
\* reference gets no missing-file, empty-label or occurrence-count warning.
C8_LocalReferencesOnly ==
    ManuscriptSucceeded =>
        /\ \A p \in {w.path : w \in Range(Warnings)} \cup {m.path : m \in References} :
             (WarnMissing(p) \in Range(Warnings)) <=>
                 (\E m \in References : m.path = p /\ ~IsHttp(p) /\ p \notin disk)
        /\ \A m \in References :
             IsHttp(m.path) =>
                 ~\E w \in Range(Warnings) :
                     w.kind \in {"missing", "no_alt", "count"} /\ w.path = m.path

\* occurrences of sub in text that do not overlap one another
Occurrences(text, sub) ==
    LET occ == {i \in 1..(Len(text) + 1) : IsAt(text, sub, i)}
        packs == {S \in SUBSET occ :
                    \A a, b \in S : a # b => (a - b >= Len(sub) \/ b - a >= Len(sub))}
    IN CHOOSE n \in 0..Cardinality(occ) :
         /\ \E S \in packs : Cardinality(S) = n
         /\ \A S \in packs : Cardinality(S) <= n

CountFlagged(m) ==
    \E w \in Range(Warnings) : w.kind = "count" /\ w.label = m.label /\ w.path = m.path

\* image references of the whole document that name the path
ReferencesTo(path) ==
    LET ms == finditer(markdown, 1)
    IN {i \in DOMAIN ms : ms[i].path = path}

\* C9 (amended): a local image reference of the page gets the usage-count
\* warning exactly when its path string occurs in the text of the whole
\* document a number of times other than 1, and the warning reports that
\* number.
C9_UsageCount ==
    ManuscriptSucceeded =>
        \A m \in References :
            ~IsHttp(m.path) =>
                /\ CountFlagged(m) <=> Occurrences(markdown, m.path) # 1
                /\ CountFlagged(m) =>
                     WarnCount(m.label, m.path, Occurrences(markdown, m.path))
                         \in Range(Warnings)

\* C9 (as stated): the above, and a path referenced by exactly one image
\* reference of the whole document is not flagged.
C9_OneReferenceUnflagged ==
    ManuscriptSucceeded =>
        \A m \in References :
            ~IsHttp(m.path) =>
                /\ CountFlagged(m) <=> Occurrences(markdown, m.path) # 1
                /\ Cardinality(ReferencesTo(m.path)) = 1 => ~CountFlagged(m)

C9_Witness ==
    /\ ManuscriptSucceeded
    /\ PageCount = 2
    /\ page_id = 1
    /\ count(result.page_content, PathF) = 1
    /\ \E m \in References : m.path = PathF /\ CountFlagged(m)
    /\ WarnCount(<<"a">>, PathF, 2) \in Range(Warnings)

====
